---- MODULE Spec2Model ----
(***************************************************************************)
(* Model of src/transpose.py: the wrapped integers (Integral, Z12,         *)
(* Interval, IntervalClass, MIDInn), the pitch classes (PitchClass over    *)
(* Torsor(Z12)) and their name codecs (from_name / __str__); the Score     *)
(* store (_store, _smack, +=, +, total) and normalized_product; equality,  *)
(* the in-place and reflected operators, the registry of Torsor classes    *)
(* kept by memoize, and the question loop of Game.play.                    *)
(*                                                                         *)
(* A Python str is modelled as a sequence of one-character strings, so     *)
(* that "P12" is <<"P","1","2">>; indices in the source are 0-based and    *)
(* are shifted by one where a sequence is subscripted.                     *)
(***************************************************************************)
EXTENDS Integers, Sequences, FiniteSets, TLC

VARIABLES
    inp,    \* the input a codec run starts from: a value or the parts of a name
    name,   \* the text handed to from_name (typed, or printed by __str__)
    res,    \* what from_name returned: a value, None, or an uncaught exception
    x,      \* the object the last operation was applied to, as it was before
    y,      \* the object the last operation returned
    op,     \* the last operation
    arg,    \* the integer argument of the last operation
    scores, \* the Score objects, by the name of the variable that holds them
    now,    \* the latest reading of datetime.now()
    rows,   \* the rows normalized_product yielded
    memo,   \* memoize's cache of Torsor: the class stored under each name
    built,  \* the classes the body of Torsor built, oldest first
    game    \* the locals of Game.play and the point it has reached

scoreVars == <<scores, now, rows>>
gameVars == <<memo, built, game>>
vars == <<inp, name, res, x, y, op, arg, scores, now, rows, memo, built, game>>

\* ------------------------------------------------------------------ bounds

MaxLen == 3            \* raw input strings: every string up to this length
MaxNumber == 16        \* interval numbers 0..MaxNumber in "<quality><number>"
MaxMods == 3           \* accidental strings up to this length
MaxOctave == 10        \* octave numbers up to this one
MaxLowOctave == 2      \* octave numbers down to -MaxLowOctave
MaxSemitones == 26     \* printed intervals: -MaxSemitones..MaxSemitones
MaxRaw == 200          \* constructor arguments and exact results: -MaxRaw..MaxRaw
MaxOperand == 13       \* right operands: -MaxOperand..MaxOperand

\* ------------------------------------------------- Python builtins on text

None == [cls |-> "NoneType"]
KeyError == [cls |-> "KeyError"]

Digits == <<"0", "1", "2", "3", "4", "5", "6", "7", "8", "9">>
IsDigit(c) == \E i \in 1..Len(Digits) : Digits[i] = c
DigitValue(c) == (CHOOSE i \in 1..Len(Digits) : Digits[i] = c) - 1

IsDecimal(s) == Len(s) > 0 /\ \A i \in 1..Len(s) : IsDigit(s[i])

RECURSIVE DecimalValue(_)
DecimalValue(s) ==
    IF s = <<>> THEN 0
    ELSE 10 * DecimalValue(SubSeq(s, 1, Len(s) - 1)) + DigitValue(s[Len(s)])

\* int(s) succeeds: an optional sign and at least one digit (the inputs of
\* the model hold no whitespace and no underscore).
IsIntLiteral(s) ==
    \/ IsDecimal(s)
    \/ Len(s) > 1 /\ s[1] \in {"-", "+"} /\ IsDecimal(Tail(s))

\* int(s) for a string on which it succeeds.
int(s) ==
    IF s[1] = "-" THEN 0 - DecimalValue(Tail(s))
    ELSE IF s[1] = "+" THEN DecimalValue(Tail(s))
    ELSE DecimalValue(s)

RECURSIVE NatStr(_)
NatStr(n) ==
    IF n < 10 THEN <<Digits[n + 1]>>
    ELSE Append(NatStr(n \div 10), Digits[(n % 10) + 1])

\* str(n) of an integer.
str(n) == IF n < 0 THEN <<"-">> \o NatStr(0 - n) ELSE NatStr(n)

UpperCase == <<"A", "B", "C", "D", "E", "F", "G", "M", "P", "S", "U", "X">>
LowerCase == <<"a", "b", "c", "d", "e", "f", "g", "m", "p", "s", "u", "x">>

\* str.lower() on one character, and on a string.
lower(c) ==
    IF \E i \in 1..Len(UpperCase) : UpperCase[i] = c
    THEN LowerCase[CHOOSE i \in 1..Len(UpperCase) : UpperCase[i] = c]
    ELSE c
LowerStr(s) == [i \in 1..Len(s) |-> lower(s[i])]

\* c * k for a one-character string c.
Repeat(c, k) == [i \in 1..k |-> c]

\* d.get(k, default) for a dict modelled as a function.
Get(d, k, default) == IF k \in DOMAIN d THEN d[k] ELSE default

\* ------------------------------------------ memoize and Torsor (lines 94-151)

\* The class t that one run of the body of Torsor(cls) builds: a new class
\* object each run (id is its identity: the number of the run that built
\* it), named "Torsor(<cls.__name__>)".
Torsor_body(cls, id) == [cls |-> "type", name |-> <<"Torsor", cls>>, id |-> id]

\* wrapper(cls) (lines 106-112) on the cache m, after the body has built the
\* classes b: the cache, the classes built and the value returned.  The
\* uncached variant runs the body on every request.
wrapper_uncached(m, b, cls) ==
    LET rv == Torsor_body(cls, Len(b) + 1)
    IN  [memo |-> [k \in DOMAIN m \cup {cls} |-> IF k = cls THEN rv ELSE m[k]],
         built |-> Append(b, rv), rv |-> rv]
wrapper(m, b, cls) ==
    IF cls \in DOMAIN m THEN [memo |-> m, built |-> b, rv |-> m[cls]]
    ELSE LET rv == Torsor_body(cls, Len(b) + 1)
         IN  [memo |-> [k \in DOMAIN m \cup {cls} |-> IF k = cls THEN rv ELSE m[k]],
              built |-> Append(b, rv), rv |-> rv]

\* The module's own request, class PitchClass(Torsor(Z12)) (line 295), is the
\* first one; no game is being played.
Imported ==
    /\ memo = wrapper(<<>>, <<>>, "Z12").memo
    /\ built = wrapper(<<>>, <<>>, "Z12").built
    /\ game = None

\* ------------------------------------------------------ Integral and norm

\* cls.norm(n), resolved along the class's MRO.
norm_truncating(cls, n) ==
    CASE cls \in {"Z12", "IntervalClass"} ->
            IF n < 0 THEN 0 - ((0 - n) % 12) ELSE n % 12
      [] cls = "MIDInn" -> IF n < 0 THEN 0 ELSE IF n > 127 THEN 127 ELSE n
      [] OTHER -> n
norm(cls, n) ==
    CASE cls \in {"Z12", "IntervalClass"} -> n % 12
      [] cls = "MIDInn" -> IF n < 0 THEN 0 ELSE IF n > 127 THEN 127 ELSE n
      [] OTHER -> n

\* cls(n): Integral.__init__.
New(cls, n) == [cls |-> cls, n |-> norm(cls, n)]

\* PitchClass(n, acc): Torsor(Z12).t.__init__ wraps Z12(n).
PitchClass(n, acc) == [cls |-> "PitchClass", n |-> New("Z12", n).n, acc |-> acc]

\* ------------------------------------------------------- Interval codec

INTERVAL_NUMBER == [ic \in 0..11 |-> <<1, 2, 2, 3, 3, 4, 5, 5, 6, 6, 7, 7>>[ic + 1]]
INTERVAL_QUALITY ==
    [ic \in 0..11 |->
        <<"P", "m", "M", "m", "M", "P", "d", "P", "m", "M", "m", "M">>[ic + 1]]

\* The qualities accepted for number == 1 (line 219).
UnisonQualities_withD == {"p", "u", "a", "d"}
UnisonQualities == {"p", "u", "a"}

\* The shift of an imperfect degree (lines 232-233): d, a by lowered letter,
\* m and M by the letter as written.
ImperfectShift_lowered(quality) ==
    Get([d |-> 0 - 2, a |-> 1], lower(quality), 0)
        + Get([m |-> 0 - 1, M |-> 0], lower(quality), 0)
ImperfectShift(quality) ==
    Get([d |-> 0 - 2, a |-> 1], lower(quality), 0)
        + Get([m |-> 0 - 1, M |-> 0], quality, 0)

Interval_from_name(nm) ==
    IF nm = <<>> \/ ~IsIntLiteral(Tail(nm)) THEN None     \* try ... except
    ELSE
      LET quality == nm[1]
          number  == int(Tail(nm))
          q       == lower(quality)
          octaves == (number - 1) \div 7
          sn      == (number - 1) % 7
          unison    == [p |-> 0, u |-> 0, a |-> 1]
          perfect   == [p |-> 0, d |-> 0 - 1, a |-> 1]
          perfectSt == (0 :> 0) @@ (3 :> 5) @@ (4 :> 7)
          imperfSt  == (1 :> 2) @@ (2 :> 4) @@ (5 :> 9) @@ (6 :> 11)
      IN
        IF number <= 0 THEN None
        ELSE IF number = 1 THEN
            IF q \notin UnisonQualities THEN None
            ELSE IF q \notin DOMAIN unison THEN KeyError
            ELSE New("Interval", unison[q])
        ELSE IF sn \in {0, 3, 4} THEN
            IF q \notin {"p", "a", "d"} THEN None
            ELSE IF q \notin DOMAIN perfect \/ sn \notin DOMAIN perfectSt THEN KeyError
            ELSE New("Interval", perfectSt[sn] + 12 * octaves + perfect[q])
        ELSE
            IF q \notin {"a", "d", "m"} THEN None
            ELSE IF sn \notin DOMAIN imperfSt THEN KeyError
            ELSE New("Interval", imperfSt[sn] + 12 * octaves + ImperfectShift(quality))

Interval_str(n) ==
    LET neg    == IF n < 0 THEN <<"-">> ELSE <<>>
        val    == IF n < 0 THEN 0 - n ELSE n
        octave == val \div 12
        ic     == val % 12
    IN IF octave = 0 /\ ic = 0 THEN <<"U", "1">>
       ELSE neg \o <<INTERVAL_QUALITY[ic]>> \o str(INTERVAL_NUMBER[ic] + 7 * octave)

IntervalClass_from_name(nm) ==
    LET iv == Interval_from_name(nm)
    IN IF iv.cls = "Interval" THEN New("IntervalClass", iv.n) ELSE iv

IntervalClass_str(n) == IF n = 0 THEN <<"P", "8">> ELSE Interval_str(n)

\* ----------------------------------------------------- PitchClass codec

BASE_NAMES ==
    [r \in 0..11 |->
        <<"C", "C", "D", "D", "E", "F", "F", "G", "G", "A", "A", "B">>[r + 1]]

name_map == [c |-> 0, d |-> 2, e |-> 4, f |-> 5, g |-> 7, a |-> 9, b |-> 11]

\* The while loop of PitchClass.from_name (lines 336-345): strips modifiers
\* from the right; ok is FALSE where the loop returns None.
RECURSIVE StripModifiers(_, _)
StripModifiers(nm, shift) ==
    IF Len(nm) > 1 THEN
        LET mod == nm[Len(nm)]
        IN IF mod = "s" \/ mod = "#"
             THEN StripModifiers(SubSeq(nm, 1, Len(nm) - 1), shift + 1)
           ELSE IF mod = "b"
             THEN StripModifiers(SubSeq(nm, 1, Len(nm) - 1), shift - 1)
           ELSE [ok |-> FALSE, name |-> nm, shift |-> shift]
    ELSE [ok |-> TRUE, name |-> nm, shift |-> shift]

\* The stored accidental (lines 347-349).
StoredAccidental_plain(base, shift) == shift
StoredAccidental(base, shift) ==
    IF shift >= 0 /\ base \notin {4, 11} THEN shift - 1 ELSE shift

PitchClass_from_name(nm) ==
    LET r == StripModifiers(LowerStr(nm), 0)
    IN IF ~r.ok THEN None
       ELSE IF Len(r.name) = 1 /\ r.name[1] \in DOMAIN name_map THEN
           LET base == name_map[r.name[1]]
           IN PitchClass(base + r.shift, StoredAccidental(base, r.shift))
       ELSE None

\* The accidental count __str__ displays (line 361).
PitchClass_shnum_stored(p) == p.acc
PitchClass_shnum(p) ==
    (IF (p.n - p.acc) % 12 \in {1, 3, 6, 8, 10} THEN 1 ELSE 0) + p.acc

PitchClass_str(p) ==
    LET shifted == (p.n - p.acc) % 12
        shnum   == PitchClass_shnum(p)
        sharps  == IF shnum >= 0 THEN Repeat("#", shnum) ELSE Repeat("b", 0 - shnum)
    IN <<BASE_NAMES[shifted]>> \o sharps

\* PitchClass.__add__ / __sub__: Z12.__add__ on the wrapped value, then a
\* new PitchClass with the same acc.
PitchClass_add_respelled(p, k) == PitchClass(New("Z12", p.n + k).n, p.acc + k)
PitchClass_add(p, k) == PitchClass(New("Z12", p.n + k).n, p.acc)
PitchClass_sub(p, k) == PitchClass(New("Z12", p.n - k).n, p.acc)

\* The predefined pitch classes (lines 448-468).
PredefinedPitchClasses ==
    { PitchClass(c[1], c[2]) :
        c \in { <<11, 0 - 1>>, <<0, 0>>, <<1, 0>>, <<1, 0 - 1>>, <<2, 0>>, <<3, 0>>,
                <<3, 0 - 1>>, <<4, 0>>, <<5, 1>>, <<4, 0 - 1>>, <<5, 0>>, <<6, 0>>,
                <<6, 0 - 1>>, <<7, 0>>, <<8, 0>>, <<8, 0 - 1>>, <<9, 0>>, <<10, 0>>,
                <<10, 0 - 1>>, <<11, 0>>, <<0, 1>> } }

\* --------------------------------------------------------- MIDInn codec

\* The for loop of MIDInn.from_name (lines 419-423): the 0-based index of
\* the rightmost non-digit, 0 when there is none.
RECURSIVE ScanIdx(_, _)
ScanIdx(nm, i) ==
    IF i < 0 THEN 0
    ELSE IF ~IsDigit(nm[i + 1]) THEN i
    ELSE ScanIdx(nm, i - 1)

\* The octave the note is counted in (line 430).
OctaveOf_written(pcv, pca, written) == written
OctaveOf(pcv, pca, written) == written - ((pcv - pca) \div 12)

MIDInn_from_name(nm) ==
    IF nm = <<>> THEN None                          \* name[idx]: IndexError, caught
    ELSE
      LET idx0 == ScanIdx(nm, Len(nm) - 1)
          idx  == IF nm[idx0 + 1] = "-" THEN idx0 - 1 ELSE idx0
          pc   == PitchClass_from_name(SubSeq(nm, 1, idx + 1))
          rest == SubSeq(nm, idx + 2, Len(nm))
      IN IF pc = None THEN None                     \* pc.value: AttributeError, caught
         ELSE IF ~IsIntLiteral(rest) THEN None      \* int(...): ValueError, caught
         ELSE LET octave == OctaveOf(pc.n, pc.acc, int(rest))
              IN New("MIDInn", 60 + pc.n + (octave - 4) * 12)

\* The octave number MIDInn.__str__ displays (line 440).
MIDInn_octave_truncating(n) ==
    4 + (IF n < 60 THEN 0 - ((60 - n) \div 12) ELSE (n - 60) \div 12)
MIDInn_octave(n) == 4 + ((n - 60) \div 12)

MIDInn_str(n) == PitchClass_str(PitchClass(n - 60, 0)) \o str(MIDInn_octave(n))

\* str(v) by the class of v.
to_name(v) ==
    CASE v.cls = "Interval" -> Interval_str(v.n)
      [] v.cls = "IntervalClass" -> IntervalClass_str(v.n)
      [] v.cls = "PitchClass" -> PitchClass_str(v)
      [] v.cls = "MIDInn" -> MIDInn_str(v.n)

\* ------------------------------------------ Integral arithmetic (lines 47-60)

Integral_add(v, s) == New(v.cls, v.n + s)
Integral_sub(v, s) == New(v.cls, v.n - s)
Integral_mul(v, s) == New(v.cls, v.n * s)
Integral_neg(v) == New(v.cls, 0 - v.n)

\* ---------------------------------------------------------------- inputs

IntegralClasses == {"Interval", "IntervalClass", "MIDInn"}
FromNames ==
    {"Interval.from_name", "IntervalClass.from_name",
     "PitchClass.from_name", "MIDInn.from_name"}

\* Values handed to __str__.
StrValues ==
    {New("Interval", n) : n \in (0 - MaxSemitones)..MaxSemitones}
        \cup {New("IntervalClass", n) : n \in 0..11}
        \cup {New("MIDInn", n) : n \in 0..127}
        \cup {PitchClass(n, a) : n \in 0..11, a \in (0 - MaxMods)..MaxMods}

\* Every string over chars of length at most n.
Strings(chars, n) == UNION {[1..k -> chars] : k \in 0..n}

QualityChars == {"P", "p", "U", "u", "D", "d", "A", "a", "M", "m", "x", "C", "#", "1"}
LetterChars ==
    {"C", "D", "E", "F", "G", "A", "B", "c", "d", "e", "f", "g", "a", "b", "H"}
ModifierChars == {"s", "#", "b"}
RawChars == {"P", "m", "M", "d", "U", "C", "b", "#", "-", "0", "1", "5", "x"}

\* The docstring's example of PitchClass.from_name (line 321).
ExampleMods == <<"#", "#", "b", "b", "#", "#", "b", "b">>
ModStrings == Strings(ModifierChars, MaxMods) \cup {ExampleMods}

CodecInputs ==
    [kind : {"value"}, v : StrValues]
        \cup [kind : {"interval"}, quality : QualityChars, number : 0..MaxNumber]
        \cup [kind : {"pitch"}, letter : LetterChars, mods : ModStrings]
        \cup [kind : {"note"}, letter : LetterChars, mods : ModStrings,
              octave : (0 - MaxLowOctave)..MaxOctave]
        \cup [kind : {"text"}, text : Strings(RawChars, MaxLen)]

\* The text of an input that is a name.
TextOf(i) ==
    CASE i.kind = "interval" -> <<i.quality>> \o str(i.number)
      [] i.kind = "pitch" -> <<i.letter>> \o i.mods
      [] i.kind = "note" -> <<i.letter>> \o i.mods \o str(i.octave)
      [] i.kind = "text" -> i.text
      [] OTHER -> <<>>

\* ------------------------------------------------- the codec specification

Init ==
    /\ inp \in CodecInputs
    /\ name = TextOf(inp)
    /\ op = IF inp.kind = "value" THEN "init" ELSE "typed"
    /\ res = None
    /\ x = None /\ y = None /\ arg = 0
    /\ scores = <<>> /\ now = 0 /\ rows = <<>>
    /\ Imported

\* name = str(v)
Str ==
    /\ op = "init"
    /\ name' = to_name(inp.v)
    /\ op' = "str"
    /\ UNCHANGED <<inp, res, x, y, arg, scoreVars, gameVars>>

ParseInterval ==
    /\ op \in {"typed", "str"}
    /\ res' = Interval_from_name(name)
    /\ op' = "Interval.from_name"
    /\ UNCHANGED <<inp, name, x, y, arg, scoreVars, gameVars>>

ParseIntervalClass ==
    /\ op \in {"typed", "str"}
    /\ res' = IntervalClass_from_name(name)
    /\ op' = "IntervalClass.from_name"
    /\ UNCHANGED <<inp, name, x, y, arg, scoreVars, gameVars>>

ParsePitchClass ==
    /\ op \in {"typed", "str"}
    /\ res' = PitchClass_from_name(name)
    /\ op' = "PitchClass.from_name"
    /\ UNCHANGED <<inp, name, x, y, arg, scoreVars, gameVars>>

ParseMIDInn ==
    /\ op \in {"typed", "str"}
    /\ res' = MIDInn_from_name(name)
    /\ op' = "MIDInn.from_name"
    /\ UNCHANGED <<inp, name, x, y, arg, scoreVars, gameVars>>

Next ==
    \/ Str
    \/ ParseInterval
    \/ ParseIntervalClass
    \/ ParsePitchClass
    \/ ParseMIDInn

Spec == Init /\ [][Next]_vars

\* ------------------------------------------------ properties of the codecs

\* The natural residue of a letter and the net shift of an accidental
\* string, as the name grammar defines them.
LetterBase ==
    [C |-> 0, D |-> 2, E |-> 4, F |-> 5, G |-> 7, A |-> 9, B |-> 11,
     c |-> 0, d |-> 2, e |-> 4, f |-> 5, g |-> 7, a |-> 9, b |-> 11]
CountOf(mods, chars) == Cardinality({i \in 1..Len(mods) : mods[i] \in chars})
NetShift(mods) == CountOf(mods, {"s", "#"}) - CountOf(mods, {"b"})
Clamp127(n) == IF n < 0 THEN 0 ELSE IF n > 127 THEN 127 ELSE n

\* C1: for every Interval v, negative values and 0 included,
\* Interval.from_name(str(v)) is an Interval equal to v.
C1_IntervalRoundTrip ==
    (op = "Interval.from_name" /\ inp.kind = "value" /\ inp.v.cls = "Interval")
        => (res.cls = "Interval" /\ res.n = inp.v.n)

\* C2: for every MIDInn n in 0..127, MIDInn.from_name(str(n)) is a MIDInn
\* equal to n.
C2_MIDInnRoundTrip ==
    (op = "MIDInn.from_name" /\ inp.kind = "value" /\ inp.v.cls = "MIDInn")
        => (res.cls = "MIDInn" /\ res.n = inp.v.n)

C2_Witness ==
    /\ op = "MIDInn.from_name" /\ inp.kind = "value" /\ inp.v.cls = "MIDInn"
    /\ inp.v.n = 1 /\ name = <<"C", "#", "-", "1">>
    /\ res = New("MIDInn", 1)

\* The reference mapping of <quality><number> for number >= 1; ok is FALSE
\* where the combination is invalid.
IntervalReference(quality, number) ==
    LET isP == quality \in {"P", "p"}
        isU == quality \in {"U", "u"}
        isA == quality \in {"A", "a"}
        isD == quality \in {"D", "d"}
        octaves == (number - 1) \div 7
        step == (number - 1) % 7
        base == CASE step = 0 -> 0 [] step = 1 -> 2 [] step = 2 -> 4
                  [] step = 3 -> 5 [] step = 4 -> 7 [] step = 5 -> 9
                  [] step = 6 -> 11
        at(shift) == [ok |-> TRUE, n |-> base + 12 * octaves + shift]
        no == [ok |-> FALSE, n |-> 0]
    IN IF number = 1 THEN
           IF isP \/ isU THEN [ok |-> TRUE, n |-> 0]
           ELSE IF isA THEN [ok |-> TRUE, n |-> 1]
           ELSE no
       ELSE IF step \in {0, 3, 4} THEN
           IF isP THEN at(0) ELSE IF isA THEN at(1) ELSE IF isD THEN at(0 - 1) ELSE no
       ELSE
           IF quality = "m" THEN at(0 - 1)
           ELSE IF quality = "M" THEN at(0)
           ELSE IF isA THEN at(1)
           ELSE IF isD THEN at(0 - 2)
           ELSE no

\* C3: Interval.from_name(quality + number) equals the reference mapping for
\* every quality letter and every positive number, and no result of
\* Interval.from_name is negative.
C3_IntervalFromName ==
    /\ (op = "Interval.from_name" /\ inp.kind = "interval" /\ inp.number >= 1)
        => LET r == IntervalReference(inp.quality, inp.number)
           IN IF r.ok THEN res = [cls |-> "Interval", n |-> r.n] ELSE res = None
    /\ (op = "Interval.from_name" /\ res.cls = "Interval") => res.n >= 0

C3_Witness ==
    /\ op = "Interval.from_name" /\ inp.kind = "interval"
    /\ name = <<"P", "1", "2">> /\ res = [cls |-> "Interval", n |-> 19]

\* C4: PitchClass.from_name(letter + modifiers) has residue
\* (base + shift) mod 12 and accidental shift - 1 when shift >= 0 and the
\* letter is not E or B, else shift; "C##bb##bb" gives the residue, the
\* accidental and the printed name of "C".
C4_PitchClassFromName ==
    /\ (op = "PitchClass.from_name" /\ inp.kind = "pitch"
            /\ inp.letter \in DOMAIN LetterBase)
        => LET base == LetterBase[inp.letter]
               shift == NetShift(inp.mods)
           IN /\ res.cls = "PitchClass"
              /\ res.n \in 0..11 /\ (base + shift - res.n) % 12 = 0
              /\ res.acc = IF shift >= 0 /\ base # 4 /\ base # 11
                           THEN shift - 1 ELSE shift
    /\ (op = "PitchClass.from_name" /\ inp.kind = "pitch"
            /\ inp.letter = "C" /\ inp.mods = ExampleMods)
        => /\ res = PitchClass_from_name(<<"C">>)
           /\ to_name(res) = to_name(PitchClass_from_name(<<"C">>))
           /\ to_name(res) = <<"C">>

C4_Witness ==
    /\ op = "PitchClass.from_name" /\ inp.kind = "pitch"
    /\ name = <<"C">> \o ExampleMods
    /\ res = [cls |-> "PitchClass", n |-> 0, acc |-> 0 - 1]

\* C5: for every letter, accidental string and octave number,
\* MIDInn.from_name gives clamp(60 + base + shift + 12 * (octave - 4)).
C5_MIDInnFromName ==
    (op = "MIDInn.from_name" /\ inp.kind = "note" /\ inp.letter \in DOMAIN LetterBase)
        => /\ res.cls = "MIDInn"
           /\ res.n = Clamp127(60 + LetterBase[inp.letter] + NetShift(inp.mods)
                                  + 12 * (inp.octave - 4))

C5_Witness ==
    /\ op = "MIDInn.from_name" /\ inp.kind = "note"
    /\ name = <<"A", "#", "#", "#", "4">> /\ res = New("MIDInn", 72)

\* C6 as stated: MIDInn.from_name("B#4") is one semitone above
\* MIDInn.from_name("C5").
C6_Original ==
    (op = "MIDInn.from_name" /\ name = <<"B", "#", "4">>)
        => (res.cls = "MIDInn" /\ res.n = MIDInn_from_name(<<"C", "5">>).n + 1)

\* C6 (amended): MIDInn.from_name("B#4") is one semitone above
\* MIDInn.from_name("B4"), which is the note number of MIDInn.from_name("C5").
C6_BSharp4 ==
    (op = "MIDInn.from_name" /\ name = <<"B", "#", "4">>)
        => /\ res.cls = "MIDInn"
           /\ res.n = MIDInn_from_name(<<"B", "4">>).n + 1
           /\ res.n = MIDInn_from_name(<<"C", "5">>).n

C6_Witness ==
    /\ op = "MIDInn.from_name" /\ name = <<"B", "#", "4">>
    /\ res = New("MIDInn", 72)

\* C7: on every input string each from_name returns a value of its class or
\* None; no exception leaves it.
C7_FromNameNeverFaults ==
    /\ op = "Interval.from_name" => res.cls \in {"Interval", "NoneType"}
    /\ op = "IntervalClass.from_name" => res.cls \in {"IntervalClass", "NoneType"}
    /\ op = "PitchClass.from_name" => res.cls \in {"PitchClass", "NoneType"}
    /\ op = "MIDInn.from_name" => res.cls \in {"MIDInn", "NoneType"}

C7_Witness ==
    /\ op = "Interval.from_name" /\ inp.kind = "text"
    /\ name = <<"d", "1">> /\ res = None

\* -------------------------------------------- the arithmetic specification

Operands == (0 - MaxOperand)..MaxOperand
InRange(n) == n \in (0 - MaxRaw)..MaxRaw

\* x = cls(k), x = <a predefined pitch class>, or x = PitchClass.from_name(s)
InitArith ==
    /\ inp = [kind |-> "none"] /\ name = <<>> /\ res = None
    /\ \/ \E cls \in IntegralClasses, k \in (0 - MaxRaw)..MaxRaw :
            x = New(cls, k) /\ op = "new" /\ arg = k
       \/ x \in PredefinedPitchClasses /\ op = "predefined" /\ arg = 0
       \/ \E l \in LetterChars, m \in ModStrings :
            /\ PitchClass_from_name(<<l>> \o m) # None
            /\ x = PitchClass_from_name(<<l>> \o m)
            /\ op = "from_name" /\ arg = 0
    /\ y = x
    /\ scores = <<>> /\ now = 0 /\ rows = <<>>
    /\ Imported

\* y = x + k
Add(k) ==
    /\ x.cls = "Interval" => InRange(x.n + k)
    /\ y' = IF x.cls = "PitchClass" THEN PitchClass_add(x, k) ELSE Integral_add(x, k)
    /\ op' = "add" /\ arg' = k
    /\ UNCHANGED <<x, inp, name, res, scoreVars, gameVars>>

\* y = x - k
Sub(k) ==
    /\ x.cls = "Interval" => InRange(x.n - k)
    /\ y' = IF x.cls = "PitchClass" THEN PitchClass_sub(x, k) ELSE Integral_sub(x, k)
    /\ op' = "sub" /\ arg' = k
    /\ UNCHANGED <<x, inp, name, res, scoreVars, gameVars>>

\* y = x * k (Integral only)
Mul(k) ==
    /\ x.cls \in IntegralClasses
    /\ x.cls = "Interval" => InRange(x.n * k)
    /\ y' = Integral_mul(x, k)
    /\ op' = "mul" /\ arg' = k
    /\ UNCHANGED <<x, inp, name, res, scoreVars, gameVars>>

\* y = -x (Integral only)
Neg ==
    /\ x.cls \in IntegralClasses
    /\ y' = Integral_neg(x)
    /\ op' = "neg" /\ arg' = 0
    /\ UNCHANGED <<x, inp, name, res, scoreVars, gameVars>>

\* x = y: the result becomes the next left operand
Assign ==
    /\ op \in {"add", "sub", "mul", "neg"}
    /\ x' = y
    /\ op' = "assign" /\ arg' = 0
    /\ UNCHANGED <<y, inp, name, res, scoreVars, gameVars>>

NextArith ==
    \/ \E k \in Operands : Add(k)
    \/ \E k \in Operands : Sub(k)
    \/ \E k \in Operands : Mul(k)
    \/ Neg
    \/ Assign

SpecArith == InitArith /\ [][NextArith]_vars

\* ---------------------------------------------- properties of the values

\* The exact integer result of the last operation.
RawResult ==
    CASE op = "add" -> x.n + arg
      [] op = "sub" -> x.n - arg
      [] op = "mul" -> x.n * arg
      [] op = "neg" -> 0 - x.n
      [] OTHER -> arg

\* normalize as the data model defines it: identity, the residue in 0..11,
\* or saturation to 0..127.
Normalized(cls, raw) ==
    CASE cls = "Interval" -> raw
      [] cls = "IntervalClass" ->
            CHOOSE r \in 0..11 : \E m \in (0 - 12 * MaxRaw)..(12 * MaxRaw) : raw = r + 12 * m
      [] cls = "MIDInn" ->
            IF raw < 0 THEN 0 ELSE IF raw > 127 THEN 127 ELSE raw

\* C8: after construction from any integer and after add, subtract, multiply
\* and negate, the result has the left operand's class and n equal to
\* normalize(exact result); normalize is idempotent; IntervalClass(k) equals
\* IntervalClass(k + 12 m).
C8_NormalizedResult ==
    /\ op = "new" => (x.cls \in IntegralClasses /\ x.n = Normalized(x.cls, arg))
    /\ (op \in {"add", "sub", "mul", "neg"} /\ x.cls \in IntegralClasses)
        => (y.cls = x.cls /\ y.n = Normalized(x.cls, RawResult))
    /\ (op \in {"new", "add", "sub", "mul", "neg"} /\ y.cls \in IntegralClasses)
        => norm(y.cls, norm(y.cls, RawResult)) = norm(y.cls, RawResult)
    /\ (op = "new" /\ x.cls = "IntervalClass")
        => \A m \in (0 - 2)..2 : New("IntervalClass", arg + 12 * m).n = x.n

C8_Witness ==
    /\ op = "sub" /\ x = [cls |-> "IntervalClass", n |-> 3] /\ arg = 5
    /\ y = [cls |-> "IntervalClass", n |-> 10]

NaturalResidues == {0, 2, 4, 5, 7, 9, 11}
PitchObjects == {p \in {x, y} : p.cls = "PitchClass"}

C10_Transposition ==
    [][ (op' \in {"add", "sub"} /\ x.cls = "PitchClass")
          => /\ x' = x
             /\ y'.cls = "PitchClass"
             /\ y'.n \in 0..11
             /\ op' = "add" => (x.n + arg' - y'.n) % 12 = 0
             /\ op' = "sub" => (x.n - arg' - y'.n) % 12 = 0
             /\ y'.acc = x.acc
             /\ (op' = "add" /\ x = PitchClass_from_name(<<"C">>)
                    /\ arg' = IntervalClass_from_name(<<"M", "3">>).n)
                 => (y'.n = 4 /\ y'.n = PitchClass_from_name(<<"E">>).n) ]_vars

C10_Witness ==
    /\ op = "add" /\ x = PitchClass_from_name(<<"C">>) /\ arg = 4
    /\ y = [cls |-> "PitchClass", n |-> 4, acc |-> 0 - 1]

\* C11: as the docstrings state, PitchClass.from_name("C##") + M3 prints as
\* "E##" and PitchClass.from_name("C") + M3 prints as "E".
C11_SpellingUnderTransposition ==
    /\ (op = "add" /\ arg = 4 /\ x = PitchClass_from_name(<<"C", "#", "#">>))
        => to_name(y) = <<"E", "#", "#">>
    /\ (op = "add" /\ arg = 4 /\ x = PitchClass_from_name(<<"C">>))
        => to_name(y) = <<"E">>

\* ------------------------------------- Python values, ==, in and dict keys

\* Values of the builtin types that meet the wrapped integers in keys and
\* filters.  A list carries its items as a sequence.
PyInt(n) == [cls |-> "int", n |-> n]
PyStr(s) == [cls |-> "str", s |-> s]
PyList(items) == [cls |-> "list", items |-> items]
IndexError == [cls |-> "IndexError"]

IntegralNames == IntegralClasses \cup {"Z12"}

\* int(v) returns (rather than raising TypeError or ValueError), and its value:
\* Integral.__int__ gives n, Torsor.t.__int__ gives the wrapped value.
HasInt(v) ==
    \/ v.cls \in IntegralNames \cup {"PitchClass", "int"}
    \/ v.cls = "str" /\ IsIntLiteral(v.s)
IntOf(v) == IF v.cls = "str" THEN int(v.s) ELSE v.n

\* Integral.__eq__ (lines 70-74): self.n == int(s), False when int(s) raises.
Integral_eq(self, s) == HasInt(s) /\ self.n = IntOf(s)

\* Torsor.t.__eq__ (lines 140-141): self.v == s if isinstance(s, t) else False.
Torsor_eq(self, s) ==
    IF s.cls = "PitchClass" THEN Integral_eq(New("Z12", self.n), s) ELSE FALSE

\* a == b as Python dispatches it: the left operand's __eq__ answers when it
\* defines one; int, str, NoneType and list return NotImplemented for a
\* foreign right operand, and then the right operand's __eq__ answers.
RECURSIVE PyEq(_, _)
PyEq(a, b) ==
    IF a.cls \in IntegralNames THEN Integral_eq(a, b)
    ELSE IF a.cls = "PitchClass" THEN Torsor_eq(a, b)
    ELSE IF b.cls \in IntegralNames THEN Integral_eq(b, a)
    ELSE IF b.cls = "PitchClass" THEN Torsor_eq(b, a)
    ELSE IF a.cls = "list" /\ b.cls = "list"
        THEN /\ Len(a.items) = Len(b.items)
             /\ \A i \in 1..Len(a.items) : PyEq(a.items[i], b.items[i])
    ELSE a.cls = b.cls /\ a = b

\* cont(p) (lines 12-22): 0 in p raises TypeError for everything but a list.
cont_never(p) == FALSE
cont(p) == p.cls = "list"

\* k in c for a list c: some item e of c satisfies e == k, the item on the left.
PyIn(k, c) == \E i \in 1..Len(c.items) : PyEq(c.items[i], k)

\* hash(v): Integral.__hash__ and Torsor.t.__hash__ return the integer value,
\* as hash(int) does; a str hashes apart from the integers.
PyHash(v) == IF v.cls = "str" THEN [str |-> v.s] ELSE [int |-> v.n]

\* The dict's test that a stored tuple key is the key looked up: equal hashes
\* and stored == key, component by component.
KeyEq(stored, key) ==
    /\ Len(stored) = Len(key)
    /\ \A i \in 1..Len(key) :
        PyHash(stored[i]) = PyHash(key[i]) /\ PyEq(stored[i], key[i])

\* key in d, d[key] and d[key] = v: a dict is a function on its stored keys.
Dict_contains(d, key) == \E k \in DOMAIN d : KeyEq(k, key)
Dict_slot(d, key) == CHOOSE k \in DOMAIN d : KeyEq(k, key)
Dict_getitem(d, key) == d[Dict_slot(d, key)]
Dict_setitem(d, key, v) ==
    IF Dict_contains(d, key) THEN [d EXCEPT ![Dict_slot(d, key)] = v]
    ELSE [k \in DOMAIN d \cup {key} |-> IF k = key THEN v ELSE d[k]]
\* d.update(e) on dicts with str keys.
Dict_update(d, e) ==
    [k \in DOMAIN d \cup DOMAIN e |-> IF k \in DOMAIN e THEN e[k] ELSE d[k]]

\* ------------------------------------------------- Score (lines 520-707)

\* A Score is a record of its attributes.  data maps the stored key tuples to
\* <<correct, total>>; the empty dict is the empty function <<>>.
datetime(t) == [cls |-> "datetime", t |-> t]
Tally(c, t) == <<c, t>>
BoolInt(ok) == IF ok THEN 1 ELSE 0

\* Score(other, name, **settings) for other None or a Score.
Score_init(other, nm, settings) ==
    LET base ==
            IF other # None
            THEN [cls |-> "Score", name |-> other.name,
                  start_date |-> other.start_date, end_date |-> other.end_date,
                  data |-> other.data, settings |-> other.settings]
            ELSE [cls |-> "Score", name |-> PyStr(<<>>),
                  start_date |-> None, end_date |-> None,
                  data |-> <<>>, settings |-> <<>>]
    IN  [base EXCEPT !.settings = Dict_update(base.settings, settings),
                     !.name = IF nm # None THEN nm ELSE base.name]

\* self._store(ok, data)
Score_store_reset(self, ok, data) ==
    [self EXCEPT !.data = Dict_setitem(self.data, data, Tally(BoolInt(ok), 1))]
Score_store_uncounted(self, ok, data) ==
    IF Dict_contains(self.data, data)
    THEN LET v == Dict_getitem(self.data, data)
         IN  [self EXCEPT !.data =
                Dict_setitem(self.data, data, Tally(v[1] + BoolInt(ok), v[2]))]
    ELSE [self EXCEPT !.data = Dict_setitem(self.data, data, Tally(BoolInt(ok), 1))]
Score_store(self, ok, data) ==
    IF Dict_contains(self.data, data)
    THEN LET v == Dict_getitem(self.data, data)
         IN  [self EXCEPT !.data =
                Dict_setitem(self.data, data, Tally(v[1] + BoolInt(ok), v[2] + 1))]
    ELSE [self EXCEPT !.data = Dict_setitem(self.data, data, Tally(BoolInt(ok), 1))]

\* The loop of __iadd__ (lines 609-614) over the keys of score.data still to
\* visit.  Keys of one dict are pairwise different, so each visits its own
\* slot of mine and the order of the visits does not show in the result.
RECURSIVE Score_iadd_data(_, _, _)
Score_iadd_data(mine, theirs, todo) ==
    IF todo = {} THEN mine
    ELSE LET k == CHOOSE k \in todo : TRUE
             v == theirs[k]
             merged ==
                IF Dict_contains(mine, k)
                THEN LET w == Dict_getitem(mine, k)
                     IN  Dict_setitem(mine, k, Tally(w[1] + v[1], w[2] + v[2]))
                ELSE Dict_setitem(mine, k, v)
         IN  Score_iadd_data(merged, theirs, todo \ {k})

\* self += score: the object self is afterwards.
Score_iadd_start_overridden(self, score) ==
    IF \/ self.start_date = None
       \/ score.start_date = None
       \/ self.start_date.t > score.start_date.t
    THEN score.start_date ELSE self.start_date
Score_iadd_start(self, score) ==
    IF \/ self.start_date = None
       \/ score.start_date # None /\ self.start_date.t > score.start_date.t
    THEN score.start_date ELSE self.start_date
Score_iadd_end(self, score) ==
    IF \/ self.end_date = None
       \/ score.end_date # None /\ self.end_date.t < score.end_date.t
    THEN score.end_date ELSE self.end_date
Score_iadd_assigning(self, score) ==
    [self EXCEPT
        !.start_date = Score_iadd_start(self, score),
        !.end_date = Score_iadd_end(self, score),
        !.data = [k \in DOMAIN self.data
                        \cup { j \in DOMAIN score.data : ~Dict_contains(self.data, j) } |->
                    IF Dict_contains(score.data, k)
                    THEN Dict_getitem(score.data, k) ELSE self.data[k]],
        !.settings = <<>>]
Score_iadd_keeping(self, score) ==
    [self EXCEPT
        !.start_date = Score_iadd_start(self, score),
        !.end_date = Score_iadd_end(self, score),
        !.data = Score_iadd_data(self.data, score.data, DOMAIN score.data)]
Score_iadd(self, score) ==
    [self EXCEPT
        !.start_date = Score_iadd_start(self, score),
        !.end_date = Score_iadd_end(self, score),
        !.data = Score_iadd_data(self.data, score.data, DOMAIN score.data),
        !.settings = <<>>]

\* self + score
Score_add(self, score) ==
    Score_iadd(Score_init(self, PyStr(<<"T", "o", "t", "a", "l">>), <<>>), score)

\* self._smack() when datetime.now() reads t.
Score_smack_again(self, t) ==
    IF self.start_date = None THEN [self EXCEPT !.start_date = datetime(t)]
    ELSE [self EXCEPT !.end_date = datetime(t)]
Score_smack(self, t) ==
    IF self.start_date = None THEN [self EXCEPT !.start_date = datetime(t)]
    ELSE IF self.end_date = None THEN [self EXCEPT !.end_date = datetime(t)]
    ELSE self

\* ------------------------------------------------- the Score specification

MaxTally == 3          \* answers tallied in one store
MaxClock == 1          \* readings of datetime.now(): 0..MaxClock

\* Question data as TransposeGame._store builds it (lines 1279-1281): a pitch
\* class, the direction and an interval.  B# and C are equal pitch classes, so
\* the first two keys are one key of a dict.
ScoreKeys ==
    { <<PitchClass(0, 0), PyStr(<<"+">>), New("Interval", 4)>>,
      <<PitchClass(0, 1), PyStr(<<"+">>), New("Interval", 4)>>,
      <<PitchClass(0, 0), PyStr(<<"-">>), New("Interval", 4)>> }
\* The question the other sessions asked: the one spelled with B#.
OtherKeys == { k \in ScoreKeys : k[1].acc # 0 }

\* The settings each session is created with (Game._reset, lines 798-806).
SessionSettings == [a |-> [asc_desc |-> "+"], b |-> [asc_desc |-> "-"]]
NewSession(s) == Score_init(None, PyStr(<<s>>), SessionSettings[s])

\* The other sessions a merge can be handed, as Game.play (lines 848-889)
\* builds one: created, marked, an answer stored, marked again.
StartedSessions == { Score_smack(NewSession("b"), t) : t \in 0..MaxClock }
PlayingSessions ==
    { Score_store(s, ok, k) : s \in StartedSessions, ok \in BOOLEAN, k \in OtherKeys }
FinishedSessions ==
    UNION { { Score_smack(s, t) : t \in s.start_date.t..MaxClock } : s \in PlayingSessions }
OtherSessions ==
    {NewSession("b")} \cup PlayingSessions \cup FinishedSessions

\* The answers tallied in a dict of tallies.
RECURSIVE SumTotals(_, _)
SumTotals(d, todo) ==
    IF todo = {} THEN 0
    ELSE LET k == CHOOSE k \in todo : TRUE IN d[k][2] + SumTotals(d, todo \ {k})
Answers(score) == SumTotals(score.data, DOMAIN score.data)

\* a = Score(name = "a", **settings)
InitScore ==
    /\ scores = [a |-> NewSession("a")]
    /\ now = 0 /\ res = None /\ op = "init"
    /\ inp = [kind |-> "none"] /\ x = None
    /\ name = <<>> /\ y = None /\ arg = 0 /\ rows = <<>>
    /\ Imported

\* a._store(ok, key)
Record(ok, key) ==
    /\ Answers(scores.a) < MaxTally
    /\ scores' = [scores EXCEPT !.a = Score_store(scores.a, ok, key)]
    /\ x' = scores.a /\ op' = "_store" /\ res' = None
    /\ inp' = [kind |-> "call", ok |-> ok, data |-> key]
    /\ UNCHANGED <<now, name, y, arg, rows, gameVars>>

\* a._smack(), datetime.now() reading t, no earlier than its last reading
Mark(t) ==
    /\ t >= now
    /\ scores' = [scores EXCEPT !.a = Score_smack(scores.a, t)]
    /\ now' = t
    /\ x' = scores.a /\ op' = "_smack" /\ res' = None
    /\ inp' = [kind |-> "call"]
    /\ UNCHANGED <<name, y, arg, rows, gameVars>>

\* The sessions a can be merged with: another session, or a itself.
MergeOperands == OtherSessions \cup {scores.a}

\* The latest reading of datetime.now() a session holds: the clock has read
\* at least that when the session is at hand.
RECURSIVE Latest(_)
Latest(dates) ==
    IF dates = {} THEN 0
    ELSE LET d == CHOOSE d \in dates : TRUE
             rest == Latest(dates \ {d})
         IN  IF d # None /\ d.t > rest THEN d.t ELSE rest
ClockAfter(score) ==
    LET t == Latest({score.start_date, score.end_date}) IN IF t > now THEN t ELSE now

\* a += score
Merge(score) ==
    /\ Answers(scores.a) + Answers(score) <= MaxTally
    /\ scores' = [scores EXCEPT !.a = Score_iadd(scores.a, score)]
    /\ now' = ClockAfter(score)
    /\ x' = scores.a /\ op' = "__iadd__" /\ res' = None
    /\ inp' = [kind |-> "call", score |-> score]
    /\ UNCHANGED <<name, y, arg, rows, gameVars>>

\* res = a + score
Plus(score) ==
    /\ Answers(scores.a) + Answers(score) <= MaxTally
    /\ res' = Score_add(scores.a, score)
    /\ now' = ClockAfter(score)
    /\ x' = scores.a /\ op' = "__add__"
    /\ inp' = [kind |-> "call", score |-> score]
    /\ UNCHANGED <<scores, name, y, arg, rows, gameVars>>

NextScore ==
    \/ \E ok \in BOOLEAN, key \in ScoreKeys : Record(ok, key)
    \/ \E t \in 0..MaxClock : Mark(t)
    \/ \E score \in MergeOperands : Merge(score)
    \/ \E score \in MergeOperands : Plus(score)

SpecScore == InitScore /\ [][NextScore]_vars

\* ------------------------------------------------------ Score properties

\* Everything of a Score but its tallies.
Header(score) ==
    <<score.name, score.start_date, score.end_date, score.settings>>

\* C12: a._store(ok, key) gives an absent key (1,1) or (0,1), adds (1,1) or
\* (0,1) to the tally of a present key, and leaves every other tally, the
\* timestamps, the name and the settings as they were.
C12_RecordOneKey ==
    op = "_store" =>
        LET before == x.data
            after == scores.a.data
            key == inp.data
            inc == Tally(BoolInt(inp.ok), 1)
        IN  /\ Dict_contains(after, key)
            /\ ~Dict_contains(before, key) => Dict_getitem(after, key) = inc
            /\ Dict_contains(before, key) =>
                 Dict_getitem(after, key) =
                    Tally(Dict_getitem(before, key)[1] + inc[1],
                          Dict_getitem(before, key)[2] + 1)
            /\ \A k \in DOMAIN before :
                 ~KeyEq(k, key) => k \in DOMAIN after /\ after[k] = before[k]
            /\ \A k \in DOMAIN after : KeyEq(k, key) \/ k \in DOMAIN before
            /\ Header(scores.a) = Header(x)

\* A wrong answer has been recorded for a question tallied before, in a
\* marked session with settings that has another question tallied too.
C12_Witness ==
    /\ op = "_store" /\ ~inp.ok
    /\ Dict_contains(x.data, inp.data)
    /\ \E k \in DOMAIN x.data : ~KeyEq(k, inp.data)
    /\ x.start_date # None /\ x.settings # <<>>

\* The tallies a Score holds.
Entries(score) == { score.data[k] : k \in DOMAIN score.data }
\* The Score objects of a state: a, and the sum an addition returned.
LiveScores == {scores.a} \cup (IF op = "__add__" THEN {res} ELSE {})

\* C13: in every Score reached from an empty one by _store, += and +, each
\* tally (correct, total) has total >= correct >= 0 and total >= 1.
C13_TallyInvariant ==
    \A score \in LiveScores : \A v \in Entries(score) :
        v[2] >= v[1] /\ v[1] >= 0 /\ v[2] >= 1

\* A session with a right and a wrong answer to one question has been
\* merged with another session's tally of a different question.
C13_Witness ==
    /\ op = "__iadd__" /\ inp.score \in OtherSessions
    /\ Tally(1, 2) \in Entries(scores.a)
    /\ Cardinality(DOMAIN scores.a.data) = 2

\* d[key] as Python reads it, <<0, 0>> standing for an absent key.
CountsOf(d, key) == IF Dict_contains(d, key) THEN Dict_getitem(d, key) ELSE <<0, 0>>

\* sum is self merged with score: the keys are those of either, each with the
\* sum of its tallies in the two, and there are no settings.
MergedTallies(self, score, sum) ==
    /\ DOMAIN sum.data \subseteq DOMAIN self.data \cup DOMAIN score.data
    /\ \A k \in DOMAIN self.data \cup DOMAIN score.data : Dict_contains(sum.data, k)
    /\ \A k \in DOMAIN self.data \cup DOMAIN score.data \cup ScoreKeys :
        /\ CountsOf(sum.data, k)[1] = CountsOf(self.data, k)[1] + CountsOf(score.data, k)[1]
        /\ CountsOf(sum.data, k)[2] = CountsOf(self.data, k)[2] + CountsOf(score.data, k)[2]
    /\ sum.settings = <<>>

\* C15: a += score and a + score give the union of the two keysets, each key
\* with the componentwise sum of its tallies (its own tally when only one
\* store has it), and empty settings; a += a doubles every tally.
C15_MergeSums ==
    /\ op = "__iadd__" =>
        /\ MergedTallies(x, inp.score, scores.a)
        /\ inp.score = x =>
            \A k \in DOMAIN x.data :
                scores.a.data[k] = Tally(2 * x.data[k][1], 2 * x.data[k][2])
    /\ op = "__add__" => MergedTallies(x, inp.score, res) /\ scores.a = x

\* a, holding settings and two questions, has been merged with a session of
\* other settings that tallied one of them under its other spelling and none
\* for the other: a has the two keys, the shared one with both tallies.
C15_Witness ==
    /\ op = "__iadd__" /\ inp.score \in OtherSessions
    /\ x.settings # <<>> /\ inp.score.settings # <<>>
    /\ Cardinality(DOMAIN x.data) = 2
    /\ \E k \in DOMAIN x.data : Dict_contains(inp.score.data, k)
    /\ \E k \in DOMAIN x.data : ~Dict_contains(inp.score.data, k)

\* The defined ones of two timestamps, and the earliest and the latest of a
\* set of timestamps (None for the empty set).
Defined(d, e) == { s \in {d, e} : s # None }
EarliestOf(dates) ==
    IF dates = {} THEN None ELSE CHOOSE d \in dates : \A e \in dates : d.t <= e.t
LatestOf(dates) ==
    IF dates = {} THEN None ELSE CHOOSE d \in dates : \A e \in dates : d.t >= e.t
MergedDates(self, score, sum) ==
    /\ sum.start_date = EarliestOf(Defined(self.start_date, score.start_date))
    /\ sum.end_date = LatestOf(Defined(self.end_date, score.end_date))

\* C16: after a += score (and in a + score) the start is the earliest of the
\* starts that are defined and the end the latest of the defined ends; a
\* timestamp neither store has stays undefined.
C16_MergeDates ==
    /\ op = "__iadd__" => MergedDates(x, inp.score, scores.a)
    /\ op = "__add__" => MergedDates(x, inp.score, res)

\* a, started later than another session and finished, has been merged with
\* that session, which has no end yet.
C16_Witness ==
    /\ op = "__iadd__" /\ inp.score \in OtherSessions
    /\ x.start_date # None /\ inp.score.start_date # None
    /\ x.start_date.t > inp.score.start_date.t
    /\ x.end_date # None /\ inp.score.end_date = None

\* C18: _smack() sets only the start of a session without one, only the end
\* of a session with a start and no end, and nothing of a session with both,
\* reading the clock for its value; so a start is never after the end, and
\* the tallies and the settings stay as they were.
C18_MarkOnce ==
    /\ op = "_smack" =>
        /\ x.start_date = None => scores.a = [x EXCEPT !.start_date = datetime(now)]
        /\ x.start_date # None /\ x.end_date = None =>
             scores.a = [x EXCEPT !.end_date = datetime(now)]
        /\ x.start_date # None /\ x.end_date # None => scores.a = x
        /\ scores.a.data = x.data /\ scores.a.settings = x.settings
    /\ scores.a.start_date # None /\ scores.a.end_date # None =>
        scores.a.start_date.t <= scores.a.end_date.t

\* A third _smack(), at a later reading of the clock, has left a session with
\* tallies, a start and an end as it was.
C18_Witness ==
    /\ op = "_smack" /\ x.data # <<>>
    /\ x.start_date # None /\ x.end_date # None
    /\ now > x.end_date.t

\* ------------------------------------------------ Score.total (629-666)

\* The inner loop of total on key k from position i (1-based here): "skip"
\* when a filter rejects the key, "count" when none does, "IndexError" when a
\* filter that is not None is met beyond the key's last position.
RECURSIVE Score_total_key(_, _, _)
Score_total_key(k, cols, i) ==
    IF i > Len(cols) THEN "count"
    ELSE LET c == cols[i] IN
         IF c = None THEN Score_total_key(k, cols, i + 1)
         ELSE IF i > Len(k) THEN "IndexError"
         ELSE IF ~(cont(c) /\ PyIn(k[i], c)) /\ ~PyEq(k[i], c) THEN "skip"
         ELSE Score_total_key(k, cols, i + 1)

\* The outer loop over the keys still to visit, from the sums so far.
RECURSIVE Score_total_from(_, _, _, _)
Score_total_from(data, cols, todo, tot) ==
    IF todo = {} THEN tot
    ELSE LET k == CHOOSE k \in todo : TRUE
             ok == Score_total_key(k, cols, 1)
         IN  Score_total_from(data, cols, todo \ {k},
                IF ok = "count" THEN <<tot[1] + data[k][1], tot[2] + data[k][2]>> ELSE tot)

\* self.total(*cols): the pair returned, or the IndexError raised.
Score_total(self, cols) ==
    IF \E k \in DOMAIN self.data : Score_total_key(k, cols, 1) = "IndexError"
    THEN IndexError
    ELSE Score_total_from(self.data, cols, DOMAIN self.data, <<0, 0>>)

\* ------------------------------------------------- the query specification

MaxRecords == 2        \* answers stored before a query

\* Questions that are pairs of a pitch class and an interval, as in the
\* docstring of normalized_product (lines 1088-1089): C, D and P4, P5.
QueryPitches == <<PitchClass(0, 0), PitchClass(2, 0)>>
QueryIntervals == <<New("Interval", 5), New("Interval", 7)>>
QueryKeys == { <<QueryPitches[i], QueryIntervals[j]>> : i, j \in 1..2 }

\* The stores n calls of _store can leave.
RECURSIVE StoresAfter(_)
StoresAfter(n) ==
    IF n = 0 THEN {NewSession("a")}
    ELSE LET before == StoresAfter(n - 1)
         IN  before \cup
             { Score_store(sc, ok, k) : sc \in before, ok \in BOOLEAN, k \in QueryKeys }
QueryStores == StoresAfter(MaxRecords)

\* The filters for one position made of two values: each value, and the
\* groups [], [X] and [X, Y].
FiltersOf(v) ==
    { v[1], v[2], PyList(<<>>), PyList(<<v[1]>>), PyList(<<v[1], v[2]>>) }
\* The same numbers as values of another family.
AsFamily(cls, v) ==
    [i \in 1..2 |-> IF cls = "int" THEN PyInt(v[i].n)
                    ELSE IF cls = "PitchClass" THEN PitchClass(v[i].n, 0)
                    ELSE New(cls, v[i].n)]
PitchFilters ==
    {None} \cup FiltersOf(QueryPitches)
        \cup FiltersOf(AsFamily("Interval", QueryPitches))
        \cup FiltersOf(AsFamily("int", QueryPitches))
IntervalFilters ==
    {None} \cup FiltersOf(QueryIntervals)
        \cup FiltersOf(AsFamily("PitchClass", QueryIntervals))
        \cup FiltersOf(AsFamily("int", QueryIntervals))
        \cup FiltersOf(AsFamily("MIDInn", QueryIntervals))
\* The argument lists of total: no filter, one, two, and one too many.
QueryCols ==
    {<<>>} \cup { <<f>> : f \in PitchFilters }
        \cup { <<f, g>> : f \in PitchFilters, g \in IntervalFilters }
        \cup { <<None, None, g>> : g \in {None, QueryIntervals[1]} }

\* a holds some answers; cols are the arguments of the query to come
InitQuery ==
    /\ \E sc \in QueryStores : scores = [a |-> sc]
    /\ \E cols \in QueryCols : inp = [kind |-> "query", cols |-> cols]
    /\ op = "init" /\ res = None /\ now = 0
    /\ name = <<>> /\ x = None /\ y = None /\ arg = 0 /\ rows = <<>>
    /\ Imported

\* res = a.total(*cols)
Total ==
    /\ op = "init"
    /\ res' = Score_total(scores.a, inp.cols)
    /\ op' = "total"
    /\ UNCHANGED <<inp, name, x, y, arg, scoreVars, gameVars>>

NextQuery == Total

SpecQuery == InitQuery /\ [][NextQuery]_vars

\* ------------------------------------------------------ query properties

\* The filters admit key k: at every supplied position the filter is None, or
\* is no container and equals the component, or is a container holding it.
Admits(cols, k) ==
    \A i \in 1..Len(cols) :
        \/ cols[i] = None
        \/ cols[i].cls # "list" /\ PyEq(k[i], cols[i])
        \/ cols[i].cls = "list" /\ \E j \in 1..Len(cols[i].items) : PyEq(cols[i].items[j], k[i])
\* The sum of component j of the tallies of a set of keys.
RECURSIVE SumOf(_, _, _)
SumOf(data, keys, j) ==
    IF keys = {} THEN 0
    ELSE LET k == CHOOSE k \in keys : TRUE IN data[k][j] + SumOf(data, keys \ {k}, j)
TotalReference(data, cols) ==
    LET hits == { k \in DOMAIN data : Admits(cols, k) }
    IN  <<SumOf(data, hits, 1), SumOf(data, hits, 2)>>

\* C14: total(f_1..f_m), m within the keys' length, returns the sums of
\* correct and total over exactly the entries whose key every filter admits;
\* with no filter or None alone that is the whole store.
C14_TotalSums ==
    op = "total" /\ Len(inp.cols) <= 2 =>
        /\ res = TotalReference(scores.a.data, inp.cols)
        /\ inp.cols \in {<<>>, <<None>>} =>
             res = <<SumOf(scores.a.data, DOMAIN scores.a.data, 1),
                     SumOf(scores.a.data, DOMAIN scores.a.data, 2)>>

\* After a right and a wrong answer to (C, P4) and nothing else, the query
\* for exactly (C, P4) has returned (1, 2).
C14_Witness ==
    /\ op = "total"
    /\ inp.cols = <<QueryPitches[1], QueryIntervals[1]>>
    /\ DOMAIN scores.a.data = {inp.cols}
    /\ scores.a.data[inp.cols] = Tally(1, 2)
    /\ res = <<1, 2>>

\* The family of the key component at each position of the stored questions.
KeyFamily == <<"PitchClass", "Interval">>
\* A group all of whose elements are of another family than the position's.
Mismatched(c, i) ==
    /\ c.cls = "list" /\ Len(c.items) > 0
    /\ \A j \in 1..Len(c.items) : c.items[j].cls # KeyFamily[i]

\* C20: when a group filter holds values of another family than the key
\* component at its position, total returns (0, 0) and raises nothing.
C20_MismatchedGroup ==
    op = "total" /\ Len(inp.cols) <= 2
        /\ (\E i \in 1..Len(inp.cols) : Mismatched(inp.cols[i], i))
    => res = <<0, 0>>

\* --------------------------------------- normalized_product (1074-1118)

\* [a] if not isinstance(a, list) else a, as the sequence of its items
AsList(a) == IF a.cls = "list" THEN a.items ELSE <<a>>

\* itertools.product(*lists): the tuples in the order it yields them, the
\* last list varying fastest.  product_from lists those that start with
\* head[i], head[i+1], ..., each followed by every tuple of rest in turn.
RECURSIVE product_from(_, _, _)
product_from(head, i, rest) ==
    IF i > Len(head) THEN <<>>
    ELSE [j \in 1..Len(rest) |-> <<head[i]>> \o rest[j]] \o product_from(head, i + 1, rest)
RECURSIVE product(_)
product(lists) ==
    IF lists = <<>> THEN << <<>> >>
    ELSE product_from(Head(lists), 1, product(Tail(lists)))

\* [v] if v is not None and not cont(v) else v
Wrap_any(v) == IF ~cont(v) THEN PyList(<<v>>) ELSE v
Wrap(v) == IF v # None /\ ~cont(v) THEN PyList(<<v>>) ELSE v

\* normalized_product(*args): the rows yielded, in order.
normalized_product(args) ==
    LET vals == product([i \in 1..Len(args) |-> AsList(args[i])])
    IN  [r \in 1..Len(vals) |-> [i \in 1..Len(vals[r]) |-> Wrap(vals[r][i])]]

\* ----------------------------------------------- the product specification

MaxArgs == 3           \* arguments of normalized_product

\* The arguments made of two values: None, each value, and lists of values,
\* of None and of nested groups.
ArgsOf(X, Y) ==
    { None, X, Y,
      PyList(<<>>), PyList(<<X>>), PyList(<<X, Y>>), PyList(<<Y, X>>),
      PyList(<<X, X>>), PyList(<<None, X>>),
      PyList(<<PyList(<<X, Y>>)>>), PyList(<<PyList(<<X, Y>>), X, Y>>),
      PyList(<<None, PyList(<<>>)>>) }
ProductArgs == ArgsOf(QueryIntervals[1], QueryIntervals[2])
ArgLists == UNION { [1..n -> ProductArgs] : n \in 0..MaxArgs }

\* args are the arguments of the call to come
InitProduct ==
    /\ \E args \in ArgLists : inp = [kind |-> "args", args |-> args]
    /\ op = "init" /\ rows = <<>> /\ res = None
    /\ scores = <<>> /\ now = 0
    /\ name = <<>> /\ x = None /\ y = None /\ arg = 0
    /\ Imported

\* rows = list(normalized_product(*args))
Normalize ==
    /\ op = "init"
    /\ rows' = normalized_product(inp.args)
    /\ op' = "normalized_product"
    /\ UNCHANGED <<inp, name, res, x, y, arg, scores, now, gameVars>>

NextProduct == Normalize

SpecProduct == InitProduct /\ [][NextProduct]_vars

\* ---------------------------------------------------- product properties

\* The number of tuples of the lists from position i on.
RECURSIVE RowsFrom(_, _)
RowsFrom(lists, i) ==
    IF i > Len(lists) THEN 1 ELSE Len(lists[i]) * RowsFrom(lists, i + 1)
\* The item of list i that row r (counted from 0) picks.
Picked(lists, r, i) ==
    lists[i][((r \div RowsFrom(lists, i + 1)) % Len(lists[i])) + 1]
\* None and a group stay; any other value v becomes [v].
Normal(v) == IF v.cls \in {"NoneType", "list"} THEN v ELSE PyList(<<v>>)
ProductReference(args) ==
    LET lists == [i \in 1..Len(args) |->
                    IF args[i].cls = "list" THEN args[i].items ELSE <<args[i]>>]
    IN  [r \in 1..RowsFrom(lists, 1) |->
            [i \in 1..Len(args) |-> Normal(Picked(lists, r - 1, i))]]

\* C19: normalized_product yields one row per element of the cartesian
\* product of its arguments (a non-list argument counting as a one-element
\* list), in input order with the last argument varying fastest, nothing
\* sorted or dropped; in a row None stays None, a value v becomes [v] and a
\* nested group stays as it is.
C19_NormalizedProduct ==
    op = "normalized_product" =>
        /\ rows = ProductReference(inp.args)
        /\ LET X == QueryIntervals[1]
               Y == QueryIntervals[2]
           IN  /\ inp.args = <<PyList(<<PyList(<<X, Y>>)>>), None>> =>
                    rows = << <<PyList(<<X, Y>>), None>> >>
               /\ inp.args = <<PyList(<<PyList(<<X, Y>>), X, Y>>), None>> =>
                    rows = << <<PyList(<<X, Y>>), None>>,
                              <<PyList(<<X>>), None>>, <<PyList(<<Y>>), None>> >>

\* The product of [Y, X], [None, X] and a value has been yielded: four rows.
C19_Witness ==
    /\ op = "normalized_product"
    /\ inp.args = <<PyList(<<QueryIntervals[2], QueryIntervals[1]>>),
                    PyList(<<None, QueryIntervals[1]>>), QueryIntervals[2]>>
    /\ Len(rows) = 4
    /\ rows[2] = <<PyList(<<QueryIntervals[2]>>), PyList(<<QueryIntervals[1]>>),
                   PyList(<<QueryIntervals[2]>>)>>

\* ------------------------------------------------- the merge specification

MaxMerged == 1         \* answers stored in each of the stores merged

\* The stores n calls of _store can leave a session with, over ScoreKeys.
RECURSIVE SessionsAfter(_, _)
SessionsAfter(s, n) ==
    IF n = 0 THEN {NewSession(s)}
    ELSE LET before == SessionsAfter(s, n - 1)
         IN  before \cup
             { Score_store(sc, ok, k) : sc \in before, ok \in BOOLEAN, k \in ScoreKeys }

\* Three sessions hold some answers
InitMerge ==
    /\ \E A \in SessionsAfter("a", MaxMerged), B \in SessionsAfter("b", MaxMerged),
          C \in SessionsAfter("a", MaxMerged) :
            scores = [A |-> A, B |-> B, C |-> C]
    /\ op = "init" /\ res = None /\ now = 0
    /\ inp = [kind |-> "none"]
    /\ name = <<>> /\ x = None /\ y = None /\ arg = 0 /\ rows = <<>>
    /\ Imported

\* res = ((A + B) + C, A + (B + C))
Associate ==
    /\ op = "init"
    /\ res' = [left |-> Score_add(Score_add(scores.A, scores.B), scores.C),
               right |-> Score_add(scores.A, Score_add(scores.B, scores.C))]
    /\ op' = "associate"
    /\ UNCHANGED <<inp, name, x, y, arg, scoreVars, gameVars>>

\* res = (A += B, B += A), each on its own copy
Commute ==
    /\ op = "init"
    /\ res' = [left |-> Score_iadd(scores.A, scores.B),
               right |-> Score_iadd(scores.B, scores.A)]
    /\ op' = "commute"
    /\ UNCHANGED <<inp, name, x, y, arg, scoreVars, gameVars>>

NextMerge == Associate \/ Commute

SpecMerge == InitMerge /\ [][NextMerge]_vars

\* ------------------------------------------------------ merge properties

\* d == e for two dicts of tallies: the same keys, as a dict tells keys
\* apart, with the same tallies.
SameMapping(d, e) ==
    /\ Cardinality(DOMAIN d) = Cardinality(DOMAIN e)
    /\ \A k \in DOMAIN d : Dict_contains(e, k) /\ Dict_getitem(e, k) = d[k]
    /\ \A k \in DOMAIN e : Dict_contains(d, k) /\ Dict_getitem(d, k) = e[k]

\* C17: (A + B) + C and A + (B + C) map the same keys to the same tallies,
\* and so do A += B and B += A, whether the keysets overlap or not.
C17_MergeAlgebra ==
    op \in {"associate", "commute"} => SameMapping(res.left.data, res.right.data)

\* Three sessions, two of which tallied one question differently (one of
\* them under its other spelling) and the third another question, have been
\* summed in both groupings.
C17_Witness ==
    /\ op = "associate"
    /\ DOMAIN scores.A.data \cap DOMAIN scores.B.data = {}
    /\ \E k \in DOMAIN scores.A.data :
        Dict_contains(scores.B.data, k) /\ Dict_getitem(scores.B.data, k) # scores.A.data[k]
    /\ \E k \in DOMAIN scores.C.data : ~Dict_contains(scores.A.data, k)
    /\ Cardinality(DOMAIN res.left.data) = 2

\* ------------------------------------------------ the wire format of a pitch

\* PitchClass._2json (lines 391-392) and json_dec_hook (lines 709-721) on the
\* dict of a value; a dict is a record over its keys.
PitchClass_2json(p) == [pc |-> PitchClass_str(p)]
json_dec_hook(dct) ==
    IF "ic" \in DOMAIN dct THEN IntervalClass_from_name(dct.ic)
    ELSE IF "iv" \in DOMAIN dct THEN Interval_from_name(dct.iv)
    ELSE IF "pc" \in DOMAIN dct THEN PitchClass_from_name(dct.pc)
    ELSE IF "nn" \in DOMAIN dct THEN New("MIDInn", dct.nn)
    ELSE dct

\* C26: for every pitch class p (residue 0..11, accidental count within
\* -MaxMods..MaxMods), PitchClass.from_name(str(p)) is a pitch class with p's
\* residue, equal to p in either order, that prints p's name; and decoding
\* the {"pc": name} dict of p gives that same pitch class.
C26_PitchClassRoundTrip ==
    (op = "PitchClass.from_name" /\ inp.kind = "value" /\ inp.v.cls = "PitchClass")
        => /\ res.cls = "PitchClass"
           /\ res.n = inp.v.n
           /\ PyEq(res, inp.v) /\ PyEq(inp.v, res)
           /\ to_name(res) = to_name(inp.v)
           /\ json_dec_hook(PitchClass_2json(inp.v)) = res

C26_Witness ==
    /\ op = "PitchClass.from_name" /\ inp.kind = "value"
    /\ inp.v = PitchClass(1, 0 - 2)
    /\ name = <<"D", "b">>
    /\ res = PitchClass(1, 0 - 1)

\* ------------------------------------------- the comparison specification

MaxCompared == 4       \* compared values are built from 0..MaxCompared

PyBool(b) == [cls |-> "bool", b |-> b]

\* a != b: neither class defines __ne__, so object.__ne__ inverts __eq__.
PyNe(a, b) == ~PyEq(a, b)

\* Pitch classes in two spellings, the wrapped integers, and builtin values.
ComparedTorsors ==
    {PitchClass(n, a) : n \in 0..MaxCompared, a \in {0 - 1, 0}}
ComparedOthers ==
    {New(c, n) : c \in IntegralClasses, n \in 0..MaxCompared}
        \cup {PyInt(n) : n \in 0..MaxCompared}
        \cup {PyStr(str(n)) : n \in 0..MaxCompared}
        \cup {None, PyStr(<<"E">>)}
ComparedValues == ComparedTorsors \cup ComparedOthers

InitCompare ==
    /\ \E a \in ComparedValues, b \in ComparedValues :
            /\ a \in ComparedTorsors \/ b \in ComparedTorsors
            /\ inp = [kind |-> "pair", a |-> a, b |-> b]
    /\ op = "init" /\ res = None
    /\ scores = <<>> /\ now = 0 /\ rows = <<>>
    /\ Imported
    /\ name = <<>> /\ x = None /\ y = None /\ arg = 0

\* res = (a == b)
Eq ==
    /\ res' = PyBool(PyEq(inp.a, inp.b))
    /\ op' = "eq"
    /\ UNCHANGED <<inp, name, x, y, arg, scoreVars, gameVars>>

\* res = (a != b)
Ne ==
    /\ res' = PyBool(PyNe(inp.a, inp.b))
    /\ op' = "ne"
    /\ UNCHANGED <<inp, name, x, y, arg, scoreVars, gameVars>>

NextCompare == Eq \/ Ne

SpecCompare == InitCompare /\ [][NextCompare]_vars

\* C21: a pitch class p compares equal to v exactly when v is a pitch class
\* with the same residue, whatever the accidentals; a pitch class and a value
\* that is none (an int, an Interval, an IntervalClass, a MIDInn) never
\* compare equal, whichever of the two is the left operand.
C21_TorsorEquality ==
    op = "eq" =>
        /\ inp.a.cls = "PitchClass"
            => (res.b <=> (inp.b.cls = "PitchClass" /\ inp.b.n = inp.a.n))
        /\ (inp.a.cls = "PitchClass") # (inp.b.cls = "PitchClass") => ~res.b

\* ------------------- operators with a value on the right, in place, reflected

\* self + s and self - s of PitchClass (lines 354-357) for an operand s that
\* int() converts: Z12.__add__ takes int(s), whatever the class of s.
PitchClass_add_value(self, s) == PitchClass_add(self, IntOf(s))
PitchClass_sub_value(self, s) == PitchClass_sub(self, IntOf(s))

\* Integral.__iadd__, __isub__, __imul__ (lines 61-69): the object after the
\* call and the value the method returns (no return statement: None).
Integral_iadd(self, s) ==
    [self |-> [self EXCEPT !.n = norm(self.cls, self.n + IntOf(s))], rv |-> None]
Integral_isub(self, s) ==
    [self |-> [self EXCEPT !.n = norm(self.cls, self.n - IntOf(s))], rv |-> None]
Integral_imul(self, s) ==
    [self |-> [self EXCEPT !.n = norm(self.cls, self.n * IntOf(s))], rv |-> None]

\* Torsor.t.__iadd__, __isub__ (lines 136-139): self.v += s binds self.v to
\* what Z12.__iadd__ returns; the method itself returns None.  A pitch class
\* whose v is no Z12 any more is written with the field v.
Torsor_iadd(self, s) ==
    [self |-> [cls |-> "PitchClass",
               v |-> Integral_iadd(New("Z12", self.n), s).rv, acc |-> self.acc],
     rv |-> None]
Torsor_isub(self, s) ==
    [self |-> [cls |-> "PitchClass",
               v |-> Integral_isub(New("Z12", self.n), s).rv, acc |-> self.acc],
     rv |-> None]

\* Integral.__radd__, __rsub__, __rmul__ (lines 53-58), reached by s + self,
\* s - self and s * self for a plain integer s.
Integral_radd(self, s) == Integral_add(self, IntOf(s))
Integral_rsub(self, s) == Integral_sub(self, IntOf(s))
Integral_rmul(self, s) == Integral_mul(self, IntOf(s))

\* -------------------------------------------- the operator specification

OperatedIntegrals ==
    {New(c, n) : c \in IntegralClasses, n \in Operands}
        \cup {New("MIDInn", 127 - n) : n \in 0..MaxOperand}
OperatedTorsors == {PitchClass(n, a) : n \in 0..11, a \in {0 - 1, 0}}
PlainIntegers == {PyInt(k) : k \in Operands}
IntervalClasses == {New("IntervalClass", n) : n \in 0..11}

\* a <op> b: a wrapped integer or a pitch class with a group element, a plain
\* integer or a pitch class on the right, or a plain integer with a wrapped
\* integer on the right.
InitOperators ==
    /\ \/ \E a \in OperatedIntegrals, b \in PlainIntegers \cup IntervalClasses :
            inp = [kind |-> "operands", a |-> a, b |-> b]
       \/ \E a \in OperatedTorsors,
             b \in PlainIntegers \cup IntervalClasses \cup OperatedTorsors :
            inp = [kind |-> "operands", a |-> a, b |-> b]
       \/ \E a \in PlainIntegers, b \in OperatedIntegrals :
            inp = [kind |-> "operands", a |-> a, b |-> b]
    /\ op = "init" /\ res = None
    /\ scores = <<>> /\ now = 0 /\ rows = <<>>
    /\ Imported
    /\ name = <<>> /\ x = None /\ y = None /\ arg = 0

\* y = a + b and y = a - b for a pitch class a
TorsorAdd ==
    /\ op = "init" /\ inp.a.cls = "PitchClass"
    /\ x' = inp.a /\ y' = PitchClass_add_value(inp.a, inp.b) /\ res' = inp.a
    /\ op' = "add"
    /\ UNCHANGED <<inp, name, arg, scoreVars, gameVars>>

TorsorSub ==
    /\ op = "init" /\ inp.a.cls = "PitchClass"
    /\ x' = inp.a /\ y' = PitchClass_sub_value(inp.a, inp.b) /\ res' = inp.a
    /\ op' = "sub"
    /\ UNCHANGED <<inp, name, arg, scoreVars, gameVars>>

\* a += b, a -= b, a *= b: the name a is bound to what the method returns (y);
\* res is the object a named before, as the method left it.
IAdd ==
    /\ op = "init" /\ inp.a.cls \in IntegralClasses \cup {"PitchClass"}
    /\ LET r == IF inp.a.cls = "PitchClass" THEN Torsor_iadd(inp.a, inp.b)
                 ELSE Integral_iadd(inp.a, inp.b)
       IN  x' = inp.a /\ y' = r.rv /\ res' = r.self
    /\ op' = "iadd"
    /\ UNCHANGED <<inp, name, arg, scoreVars, gameVars>>

ISub ==
    /\ op = "init" /\ inp.a.cls \in IntegralClasses \cup {"PitchClass"}
    /\ LET r == IF inp.a.cls = "PitchClass" THEN Torsor_isub(inp.a, inp.b)
                 ELSE Integral_isub(inp.a, inp.b)
       IN  x' = inp.a /\ y' = r.rv /\ res' = r.self
    /\ op' = "isub"
    /\ UNCHANGED <<inp, name, arg, scoreVars, gameVars>>

IMul ==
    /\ op = "init" /\ inp.a.cls \in IntegralClasses
    /\ LET r == Integral_imul(inp.a, inp.b)
       IN  x' = inp.a /\ y' = r.rv /\ res' = r.self
    /\ op' = "imul"
    /\ UNCHANGED <<inp, name, arg, scoreVars, gameVars>>

\* y = a + b, y = a - b, y = a * b for a plain integer a: int returns
\* NotImplemented and b's reflected method answers.
RAdd ==
    /\ op = "init" /\ inp.a.cls = "int"
    /\ x' = inp.b /\ y' = Integral_radd(inp.b, inp.a) /\ res' = inp.b
    /\ op' = "radd"
    /\ UNCHANGED <<inp, name, arg, scoreVars, gameVars>>

RSub ==
    /\ op = "init" /\ inp.a.cls = "int"
    /\ x' = inp.b /\ y' = Integral_rsub(inp.b, inp.a) /\ res' = inp.b
    /\ op' = "rsub"
    /\ UNCHANGED <<inp, name, arg, scoreVars, gameVars>>

RMul ==
    /\ op = "init" /\ inp.a.cls = "int"
    /\ x' = inp.b /\ y' = Integral_rmul(inp.b, inp.a) /\ res' = inp.b
    /\ op' = "rmul"
    /\ UNCHANGED <<inp, name, arg, scoreVars, gameVars>>

NextOperators ==
    \/ TorsorAdd
    \/ TorsorSub
    \/ IAdd
    \/ ISub
    \/ IMul
    \/ RAdd
    \/ RSub
    \/ RMul

SpecOperators == InitOperators /\ [][NextOperators]_vars

\* C22: + and - of a pitch class take a group element only: with another
\* pitch class as the right operand they yield no pitch class.
C22_NoTorsorOperand ==
    (op \in {"add", "sub"} /\ inp.b.cls = "PitchClass") => y.cls # "PitchClass"

\* The exact integer result of an in-place or reflected operation, the
\* operands in written order.
WrittenResult ==
    CASE op = "iadd" -> inp.a.n + inp.b.n
      [] op = "isub" -> inp.a.n - inp.b.n
      [] op = "imul" -> inp.a.n * inp.b.n
      [] op = "radd" -> inp.a.n + inp.b.n
      [] op = "rsub" -> inp.a.n - inp.b.n
      [] op = "rmul" -> inp.a.n * inp.b.n

\* C24: after a += k, a -= k or a *= k the name a denotes a value of the
\* class it had, with n = normalize(exact result) (a MIDInn within 0..127),
\* and a pitch class still wraps a residue in 0..11.
C24_InPlace ==
    op \in {"iadd", "isub", "imul"} =>
        /\ y.cls = x.cls
        /\ x.cls \in IntegralClasses => y.n = Normalized(x.cls, WrittenResult)
        /\ x.cls = "MIDInn" => y.n \in 0..127
        /\ x.cls = "PitchClass" => ("n" \in DOMAIN res /\ res.n \in 0..11)

\* C25: for a plain integer k and a wrapped integer b with number n, k + b,
\* k * b and k - b have b's class and the numbers normalize(k + n),
\* normalize(k * n) and normalize(k - n).
C25_Reflected ==
    op \in {"radd", "rsub", "rmul"} =>
        /\ y.cls = inp.b.cls
        /\ y.n = Normalized(inp.b.cls, WrittenResult)

\* ---------------------------------------------- the registry specification

\* The classes of the module that Torsor can be asked for, by __name__.
Families == {"Integral", "Z12", "Interval", "IntervalClass", "MIDInn"}

\* The state once memoize has decorated Torsor (line 115): an empty cache.
InitTorsor ==
    /\ memo = <<>> /\ built = <<>> /\ game = None
    /\ op = "init" /\ inp = [kind |-> "none"] /\ res = None /\ x = None
    /\ scores = <<>> /\ now = 0 /\ rows = <<>>
    /\ name = <<>> /\ y = None /\ arg = 0

\* res = Torsor(cls); x keeps the cache as it was before the request.
Request(cls) ==
    /\ LET r == wrapper(memo, built, cls)
       IN  memo' = r.memo /\ built' = r.built /\ res' = r.rv
    /\ x' = memo
    /\ inp' = [kind |-> "request", cls |-> cls]
    /\ op' = "Torsor"
    /\ UNCHANGED <<name, y, arg, scoreVars, game>>

NextTorsor == \E cls \in Families : Request(cls)

SpecTorsor == InitTorsor /\ [][NextTorsor]_vars

\* The runs of the body of Torsor that built a class for the family c.
BodyRuns(c) == {i \in 1..Len(built) : built[i].name = <<"Torsor", c>>}

\* C23: a request returns the class the registry holds for the name, which is
\* the class any earlier request for that name returned; the body of Torsor
\* has run exactly once for every name requested so far, on the first
\* request, and for no other name; no entry of the registry is replaced.
C23_MemoOnce ==
    /\ \A c \in DOMAIN memo : Cardinality(BodyRuns(c)) = 1
    /\ Len(built) = Cardinality(DOMAIN memo)
    /\ \A i \in 1..Len(built) : \A j \in 1..Len(built) :
            built[i].id = built[j].id => i = j
    /\ op = "Torsor" =>
        /\ inp.cls \in DOMAIN memo /\ res = memo[inp.cls]
        /\ \A c \in DOMAIN x : c \in DOMAIN memo /\ memo[c] = x[c]
        /\ inp.cls \in DOMAIN x
            => (res = x[inp.cls] /\ Len(built) = Cardinality(DOMAIN x))
        /\ inp.cls \notin DOMAIN x
            => (Len(built) = Cardinality(DOMAIN x) + 1 /\ res = built[Len(built)])

\* A second request for a family, after another family was built in between.
C23_Witness ==
    /\ op = "Torsor" /\ inp.cls = "Z12" /\ inp.cls \in DOMAIN x
    /\ Len(built) >= 2 /\ built[1].name = <<"Torsor", "Z12">>
    /\ res = built[1]

\* ------------------------------- Game.play and TransposeGame (lines 832-1281)

MaxQuestions == 2      \* play(n) for n in 1..MaxQuestions
MaxInputs == 4         \* lines typed at the prompt in one session

\* The game's name and its settings after set_settings (lines 1228-1237):
\* one pitch class, one interval, both directions.
GameName == <<"T", "r", "a", "n", "s", "p", "o", "s", "e">>
PlayPitches == <<PitchClass(0, 0)>>
PlayIntervals == <<New("Interval", 4)>>
PlayDirections == <<0 - 1, 1>>

\* _reset(None) (lines 798-806, 1253-1262) with the sessions saved so far:
\* the new current score.
TransposeGame_reset(saved) ==
    Score_init(None, PyStr(GameName \o <<" ">> \o str(Len(saved))),
               [intervals |-> PyList(PlayIntervals), pitches |-> PyList(PlayPitches),
                asc_desc |-> PyStr(<<"+", "-">>)])

\* _gen() (lines 1264-1269): the question parameters random.choice can give.
TransposeGame_gen ==
    { [pc |-> PlayPitches[i], ic |-> PlayIntervals[j], ad |-> PlayDirections[k]] :
        i \in DOMAIN PlayPitches, j \in DOMAIN PlayIntervals, k \in DOMAIN PlayDirections }

Sign(ad) == PyStr(IF ad = 1 THEN <<"+">> ELSE <<"-">>)

\* _exercise(**data) (lines 1271-1277) when input() returns text.
TransposeGame_exercise(data, text) ==
    [inp |-> text,
     ans |-> PitchClass_from_name(text),
     corr |-> PitchClass_add_value(data.pc,
                Integral_mul(New("IntervalClass", IntOf(data.ic)), data.ad))]

\* _store(ok, **data) (lines 1279-1281) on the current score.
TransposeGame_store(score, ok, data) ==
    Score_store(score, ok, <<data.pc, Sign(data.ad), data.ic>>)

\* The lines typed at the prompt: nothing, two queries, a malformed name and
\* the names of the two answers.
Quit == <<"?", "q", "u", "i", "t">>
PlayTexts ==
    { <<>>, Quit, <<"?", "w", "h", "e", "r", "e">>, <<"H">>, <<"E">>, <<"A", "b">> }

\* What the body of the while loop (lines 857-878) does with a line that is
\* no correct answer: inp[0] raises IndexError on the empty str.
Game_play_branch(e) ==
    IF e.inp = <<>> THEN "IndexError"
    ELSE IF e.inp[1] = "?" THEN (IF e.inp = Quit THEN "quit" ELSE "query")
    ELSE IF e.ans = None THEN "what"
    ELSE "no"

\* ------------------------------------------------- the play specification

\* A game whose file is missing (lines 764-766): no sessions, nothing played.
InitPlay ==
    /\ scores = [list |-> <<>>]
    /\ Imported
    /\ op = "init" /\ inp = [kind |-> "none"] /\ res = None
    /\ now = 0 /\ rows = <<>>
    /\ name = <<>> /\ x = None /\ y = None /\ arg = 0

\* play(n) up to the first input(): lines 848-855.  heard keeps the lines
\* typed so far for the question being asked.
Play(n, data) ==
    /\ game = None
    /\ scores' = [cur |-> Score_smack(TransposeGame_reset(scores.list), now),
                  list |-> scores.list]
    /\ game' = [at |-> "input", n |-> n, i |-> 0, enough |-> FALSE,
                wrong |-> FALSE, data |-> data, heard |-> <<>>, inputs |-> 0]
    /\ x' = None /\ res' = None /\ y' = None
    /\ inp' = [kind |-> "call", n |-> n]
    /\ op' = "play"
    /\ UNCHANGED <<memo, built, now, rows, name, arg>>

\* input() returns text: play runs on to the next input(), to its end
\* (datetime.now() reading t) or to an uncaught exception.  x keeps the
\* current score and the locals as they were; res is ans and y is corr.
Answer(text, t, next) ==
    /\ game # None /\ game.at = "input" /\ game.inputs < MaxInputs
    /\ t >= now
    /\ LET e == TransposeGame_exercise(game.data, text)
           differ == PyNe(e.ans, e.corr)
           branch == IF differ THEN Game_play_branch(e) ELSE "ok"
           stored ==
                IF PyEq(e.ans, e.corr)
                THEN TransposeGame_store(scores.cur, ~game.wrong, game.data)
                ELSE scores.cur
           over == branch = "quit" \/ (branch = "ok" /\ game.i + 1 = game.n)
           final == Score_smack(stored, t)
       IN  /\ res' = e.ans /\ y' = e.corr
           /\ CASE branch = "IndexError" ->
                    /\ game' = [game EXCEPT !.at = "IndexError",
                                            !.inputs = game.inputs + 1]
                    /\ t = now /\ UNCHANGED <<scores, now>>
                [] branch \in {"query", "what", "no"} ->
                    /\ game' = [game EXCEPT !.wrong = (branch = "no") \/ game.wrong,
                                            !.heard = Append(game.heard, text),
                                            !.inputs = game.inputs + 1]
                    /\ t = now /\ UNCHANGED <<scores, now>>
                [] over ->
                    /\ game' = [game EXCEPT !.at = "done",
                                            !.enough = (branch = "quit"),
                                            !.inputs = game.inputs + 1]
                    /\ scores' = [cur |-> final, list |-> Append(scores.list, final)]
                    /\ now' = t
                [] OTHER ->
                    /\ game' = [game EXCEPT !.i = game.i + 1, !.wrong = FALSE,
                                            !.data = next, !.heard = <<>>,
                                            !.inputs = game.inputs + 1]
                    /\ scores' = [scores EXCEPT !.cur = stored]
                    /\ t = now /\ UNCHANGED now
    /\ x' = [cur |-> scores.cur, game |-> game]
    /\ inp' = [kind |-> "text", text |-> text]
    /\ op' = "input"
    /\ UNCHANGED <<memo, built, rows, name, arg>>

NextPlay ==
    \/ \E n \in 1..MaxQuestions, data \in TransposeGame_gen : Play(n, data)
    \/ \E text \in PlayTexts, t \in 0..MaxClock, next \in TransposeGame_gen :
            Answer(text, t, next)

SpecPlay == InitPlay /\ [][NextPlay]_vars

\* The residue of the right answer to a question, the question's key in the
\* score, and what a typed line is for a question.
RightResidue(q) == (q.pc.n + q.ad * q.ic.n) % 12
KeyOf(q) == <<q.pc, Sign(q.ad), q.ic>>
IsQuery(text) == Len(text) > 0 /\ text[1] = "?"
Parses(text) == PitchClass_from_name(text) # None
Incorrect(q, text) ==
    Parses(text) /\ PitchClass_from_name(text).n # RightResidue(q)
SameQuestion ==
    /\ game.at = "input" /\ game.i = x.game.i /\ game.data = x.game.data
    /\ scores.cur = x.cur

\* C27: whatever line is typed, the empty one included, play does not fault;
\* a query other than ?quit, or a line from_name gives no value for, has the
\* same question asked again with nothing recorded and the question not
\* marked wrong; a parsed but incorrect answer records nothing either; the
\* correct answer adds one to the question's tally, as correct iff no parsed
\* but incorrect line came before it; ?quit ends the session, recording
\* nothing for the question.
C27_Reprompt ==
    op = "input" =>
        LET q == x.game.data
            text == inp.text
            ok == \A j \in 1..Len(x.game.heard) : ~Incorrect(q, x.game.heard[j])
            was == CountsOf(x.cur.data, KeyOf(q))
        IN  /\ game.at # "IndexError"
            /\ (text # Quit /\ (IsQuery(text) \/ ~Parses(text)))
                => (SameQuestion /\ game.wrong = x.game.wrong)
            /\ Incorrect(q, text) => SameQuestion
            /\ (Parses(text) /\ ~Incorrect(q, text))
                => /\ CountsOf(scores.cur.data, KeyOf(q))
                        = <<was[1] + BoolInt(ok), was[2] + 1>>
                   /\ Answers(scores.cur) = Answers(x.cur) + 1
            /\ text = Quit
                => /\ game.at = "done" /\ scores.cur.data = x.cur.data
                   /\ scores.cur.end_date # None
                   /\ scores.list = <<scores.cur>>
====
